---- MODULE Spec2Model ----
(***************************************************************************)
(* A model of into_dbus_python: the compiler of D-Bus signatures into      *)
(* transforming functions (_xformer.py) and the inference of a signature   *)
(* from a dbus-python value (_signature.py).                               *)
(*                                                                         *)
(* Strings are sequences of one-character strings.  Every Python object,   *)
(* plain or dbus-python, is a record of one shape:                         *)
(*   t              the object's type ("bool", "list", "Array", ...)       *)
(*   n              the number a bool, an int or a dbus number holds       *)
(*   s              the text a str or a dbus string holds                  *)
(*   items          the members of a list, tuple, Array or Struct, and the *)
(*                  (key, value) pairs, in insertion order, of a dict or   *)
(*                  Dictionary                                             *)
(*   variant_level  the attribute of a dbus-python object (0 otherwise)    *)
(*   signature      the signature stored on an Array, Struct, Dictionary   *)
(***************************************************************************)
EXTENDS Integers, Sequences, FiniteSets, TLC

MkObj(t, n, s, items, vl, sg) ==
    [t |-> t, n |-> n, s |-> s, items |-> items,
     variant_level |-> vl, signature |-> sg]

PyNone == MkObj("NoneType", 0, <<>>, <<>>, 0, <<>>)
PyBool(b) == MkObj("bool", IF b THEN 1 ELSE 0, <<>>, <<>>, 0, <<>>)
PyInt(n) == MkObj("int", n, <<>>, <<>>, 0, <<>>)
PyStr(s) == MkObj("str", 0, s, <<>>, 0, <<>>)
PyList(items) == MkObj("list", 0, <<>>, items, 0, <<>>)
PyTuple(items) == MkObj("tuple", 0, <<>>, items, 0, <<>>)
\* a dict holds its (key, value) pairs as 2-tuples, as dict.items() yields them
PyDict(pairs) == MkObj("dict", 0, <<>>, pairs, 0, <<>>)

Max(a, b) == IF a >= b THEN a ELSE b

RECURSIVE MaxOf(_)
MaxOf(seq) == IF Len(seq) = 1 THEN seq[1] ELSE Max(seq[1], MaxOf(Tail(seq)))

RECURSIVE Join(_)
\* ''.join(...)
Join(seqs) == IF seqs = <<>> THEN <<>> ELSE Head(seqs) \o Join(Tail(seqs))

\* 'v' in sig
Contains(str, ch) == \E i \in 1..Len(str) : str[i] = ch

(***************************************************************************)
(* The results of a call: a returned (object, level) pair, or a raised     *)
(* exception with the value it carries.                                    *)
(***************************************************************************)
Return(obj, level) == [exc |-> "None", obj |-> obj, level |-> level]
Raise(exc, value) == [exc |-> exc, obj |-> value, level |-> 0]

\* the first result that raised, in evaluation order, or 0
FirstRaise(results) ==
    IF \E i \in 1..Len(results) : results[i].exc /= "None"
    THEN CHOOSE i \in 1..Len(results) :
            /\ results[i].exc /= "None"
            /\ \A j \in 1..(i - 1) : results[j].exc = "None"
    ELSE 0

(***************************************************************************)
(* The compiled nodes: the (function, signature) pair a parse action       *)
(* returns.  The function is a closure; it is held as the data it closes   *)
(* over: which the_func it is, the class of a base case, the compiled      *)
(* children.  A literal token of the grammar has the same shape.           *)
(***************************************************************************)
Node(kind, klass, sig, subs) ==
    [kind |-> kind, klass |-> klass, sig |-> sig, subs |-> subs]

Lit(ch) == Node("lit", "", <<ch>>, <<>>)

(***************************************************************************)
(* The dbus-python classes, as far as the transforming functions use them. *)
(***************************************************************************)
DbusScalarTypes ==
    {"Byte", "Boolean", "Int16", "UInt16", "Int32", "UInt32", "Int64",
     "UInt64", "Double", "UnixFd", "String", "ObjectPath", "Signature"}

DbusTypes == DbusScalarTypes \union {"Array", "Struct", "Dictionary"}

IsNumber(v) == v.t \in {"bool", "int"}
IsText(v) == v.t = "str"

\* bool(v)
Truthy(v) ==
    IF IsNumber(v) THEN v.n /= 0
    ELSE IF IsText(v) THEN v.s /= <<>>
    ELSE IF v.t \in {"list", "tuple", "dict"} THEN v.items /= <<>>
    ELSE v.t /= "NoneType"

\* whether n is in the range of a dbus integer class.  The integers of the
\* model stay far within 32 bits, so only the 16-bit bounds and the sign of
\* the unsigned classes can be crossed.
InIntRange(klass, n) ==
    CASE klass = "Int16" -> n >= -32768 /\ n <= 32767
      [] klass = "UInt16" -> n >= 0 /\ n <= 65535
      [] klass \in {"Int32", "Int64"} -> TRUE
      [] klass \in {"UInt32", "UInt64"} -> n >= 0

\* klass(v, variant_level=vl): the object, or the exception the class raises
Construct(klass, v, vl) ==
    CASE klass = "Boolean" ->
           Return(MkObj("Boolean", IF Truthy(v) THEN 1 ELSE 0, <<>>, <<>>, vl, <<>>), 0)
      [] klass = "Byte" ->
           IF IsNumber(v)
           THEN IF v.n >= 0 /\ v.n <= 255
                THEN Return(MkObj("Byte", v.n, <<>>, <<>>, vl, <<>>), 0)
                ELSE Raise("ValueError", v)
           ELSE Raise("TypeError", v)
      [] klass \in {"Int16", "UInt16", "Int32", "UInt32", "Int64", "UInt64"} ->
           IF IsNumber(v)
           THEN IF InIntRange(klass, v.n)
                THEN Return(MkObj(klass, v.n, <<>>, <<>>, vl, <<>>), 0)
                ELSE Raise("OverflowError", v)
           ELSE IF IsText(v) THEN Raise("ValueError", v)
           ELSE Raise("TypeError", v)
      [] klass = "Double" ->
           IF IsNumber(v) THEN Return(MkObj("Double", v.n, <<>>, <<>>, vl, <<>>), 0)
           ELSE IF IsText(v) THEN Raise("ValueError", v)
           ELSE Raise("TypeError", v)
      [] klass = "UnixFd" ->
           IF IsNumber(v)
           THEN IF v.n >= 0
                THEN Return(MkObj("UnixFd", v.n, <<>>, <<>>, vl, <<>>), 0)
                ELSE Raise("ValueError", v)
           ELSE Raise("TypeError", v)
      [] klass = "String" ->
           IF IsText(v) THEN Return(MkObj("String", 0, v.s, <<>>, vl, <<>>), 0)
           ELSE Return(MkObj("String", 0, <<"<", v.t, ">">>, <<>>, vl, <<>>), 0)
      [] klass = "ObjectPath" ->
           IF IsText(v)
           THEN IF v.s /= <<>> /\ v.s[1] = "/"
                THEN Return(MkObj("ObjectPath", 0, v.s, <<>>, vl, <<>>), 0)
                ELSE Raise("ValueError", v)
           ELSE Raise("TypeError", v)
      [] klass = "Signature" ->
           IF IsText(v) THEN Return(MkObj("Signature", 0, v.s, <<>>, vl, <<>>), 0)
           ELSE Raise("TypeError", v)

\* dbus.types.Array built with no signature argument
DbusArray_unsigned(items, sig, vl) == MkObj("Array", 0, <<>>, items, vl, <<>>)

\* dbus.types.Array(items, signature=sig, variant_level=vl)
DbusArray(items, sig, vl) == MkObj("Array", 0, <<>>, items, vl, sig)

\* dbus.types.Struct(items, signature=sig, variant_level=vl)
DbusStruct(items, sig, vl) == MkObj("Struct", 0, <<>>, items, vl, sig)

\* two dbus scalars are the same key of a dict when their values are equal
SameKey(a, b) == a.n = b.n /\ a.s = b.s

RECURSIVE DictFromPairs(_)
\* dict(pairs): a later pair with an equal key replaces the value of the earlier
DictFromPairs(pairs) ==
    IF pairs = <<>> THEN <<>>
    ELSE LET n == Len(pairs)
             acc == DictFromPairs(SubSeq(pairs, 1, n - 1))
             kv == pairs[n]
             hit == {i \in 1..Len(acc) : SameKey(acc[i].items[1], kv.items[1])}
         IN IF hit = {}
            THEN Append(acc, kv)
            ELSE [i \in 1..Len(acc) |->
                    IF i \in hit
                    THEN PyTuple(<<acc[i].items[1], kv.items[2]>>)
                    ELSE acc[i]]

\* dbus.types.Dictionary(pairs, signature=sig, variant_level=vl)
DbusDictionary(pairs, sig, vl) ==
    MkObj("Dictionary", 0, <<>>, DictFromPairs(pairs), vl, sig)

(***************************************************************************)
(* What Python does with an object of each type.                           *)
(***************************************************************************)
\* IsDict that takes an empty dict for no dict
IsDict_nonempty(v) == v.t \in {"dict", "Dictionary"} /\ v.items /= <<>>

\* isinstance(v, dict)
IsDict(v) == v.t \in {"dict", "Dictionary"}

\* whether `for x in v` and len(v) are defined
Iterable(v) == v.t \in {"list", "tuple", "dict", "str", "Array", "Struct", "Dictionary"}

\* the objects `for x in v` yields: the keys of a dict, the characters of a str
Iter(v) ==
    IF IsDict(v) THEN [i \in 1..Len(v.items) |-> v.items[i].items[1]]
    ELSE IF v.t = "str" THEN [i \in 1..Len(v.s) |-> PyStr(<<v.s[i]>>)]
    ELSE v.items

(***************************************************************************)
(* _ToDbusXformer: the parse actions, and the functions they return.       *)
(***************************************************************************)
\* _variant_levels that gives a marked object the level of its contents
_variant_levels_flat(level, variant) ==
    IF variant /= 0 THEN <<level, level + variant>> ELSE <<0, level>>

\* _variant_levels with the object marked as a variant at every call
_variant_levels_marked(level, variant) ==
    <<level + variant, level + variant>>

\* a level for the object and one for the function
_variant_levels(level, variant) ==
    IF variant /= 0
    THEN <<level + variant, level + variant>>
    ELSE <<0, level>>

\* returns (the_func, 'v')
_handleVariant == Node("variant", "", <<"v">>, <<>>)

\* _handleArray with the braces of a dict left out of its signature
_handleArray_unbraced(toks) ==
    IF Len(toks) = 5 /\ toks[2] = Lit("{") /\ toks[5] = Lit("}")
    THEN LET subtree == SubSeq(toks, 3, 4)
             signature_ == Join([i \in 1..2 |-> subtree[i].sig])
         IN Node("dict", "", <<"a">> \o signature_, subtree)
    ELSE IF Len(toks) = 2
    THEN Node("array", "", <<"a">> \o toks[2].sig, <<toks[2]>>)
    ELSE Node("unexpected tokens", "", <<>>, <<>>)

\* returns (the_func, 'a{' + signature + '}') or (the_func, 'a' + sig)
_handleArray(toks) ==
    IF Len(toks) = 5 /\ toks[2] = Lit("{") /\ toks[5] = Lit("}")
    THEN LET subtree == SubSeq(toks, 3, 4)
             signature_ == Join([i \in 1..2 |-> subtree[i].sig])
         IN Node("dict", "", <<"a", "{">> \o signature_ \o <<"}">>, subtree)
    ELSE IF Len(toks) = 2
    THEN Node("array", "", <<"a">> \o toks[2].sig, <<toks[2]>>)
    ELSE Node("unexpected tokens", "", <<>>, <<>>)

\* returns (the_func, '(' + signature + ')')
_handleStruct(toks) ==
    LET subtrees == SubSeq(toks, 2, Len(toks) - 1)
        signature_ == Join([i \in 1..Len(subtrees) |-> subtrees[i].sig])
    IN Node("struct", "", <<"(">> \o signature_ \o <<")">>, subtrees)

\* returns lambda: (the_func, symbol)
_handleBaseCase(klass, symbol) == Node("base", klass, <<symbol>>, <<>>)

\* the signature that the_func of a dict or struct node closes over
InnerSignature(node) == Join([i \in 1..Len(node.subs) |-> node.subs[i].sig])

(***************************************************************************)
(* The grammar of dbus_signature_pyparsing.Parser, with the parse actions  *)
(* that _ToDbusXformer.__init__ sets.  A parse returns the token the       *)
(* production's action built and the place where the parse stopped.        *)
(***************************************************************************)
\* the literal each production for a basic type matches
CODE ==
    [y |-> "BYTE", b |-> "BOOLEAN", n |-> "INT16", q |-> "UINT16",
     i |-> "INT32", u |-> "UINT32", x |-> "INT64", t |-> "UINT64",
     d |-> "DOUBLE", h |-> "UNIX_FD", s |-> "STRING", o |-> "OBJECT_PATH",
     g |-> "SIGNATURE"]

\* self.<production>.setParseAction(...)
ParseAction(production) ==
    CASE production = "BYTE" -> _handleBaseCase("Byte", "y")
      [] production = "BOOLEAN" -> _handleBaseCase("Boolean", "b")
      [] production = "INT16" -> _handleBaseCase("Int16", "n")
      [] production = "UINT16" -> _handleBaseCase("UInt16", "q")
      [] production = "INT32" -> _handleBaseCase("Int32", "i")
      [] production = "UINT32" -> _handleBaseCase("UInt32", "u")
      [] production = "INT64" -> _handleBaseCase("Int64", "x")
      [] production = "UINT64" -> _handleBaseCase("UInt64", "t")
      [] production = "DOUBLE" -> _handleBaseCase("Double", "d")
      [] production = "UNIX_FD" -> _handleBaseCase("UnixFd", "h")
      [] production = "STRING" -> _handleBaseCase("String", "s")
      [] production = "OBJECT_PATH" -> _handleBaseCase("ObjectPath", "o")
      [] production = "SIGNATURE" -> _handleBaseCase("Signature", "g")
      [] production = "VARIANT" -> _handleVariant

Parsed(tok, next) == [ok |-> TRUE, tok |-> tok, toks |-> <<>>, next |-> next]
ParsedMany(toks, next) == [ok |-> TRUE, tok |-> Lit(""), toks |-> toks, next |-> next]
NoMatch(at) == [ok |-> FALSE, tok |-> Lit(""), toks |-> <<>>, next |-> at]

RECURSIVE COMPLETE(_, _)
RECURSIVE ZeroOrMoreCOMPLETE(_, _)

\* ZeroOrMore(COMPLETE) from place i: the tokens of the complete types matched
ZeroOrMoreCOMPLETE(str, i) ==
    LET first == COMPLETE(str, i)
    IN IF ~first.ok THEN ParsedMany(<<>>, i)
       ELSE LET rest == ZeroOrMoreCOMPLETE(str, first.next)
            IN ParsedMany(<<first.tok>> \o rest.toks, rest.next)

\* one complete type from place i
COMPLETE(str, i) ==
    IF i > Len(str) THEN NoMatch(i)
    ELSE IF str[i] \in DOMAIN CODE THEN Parsed(ParseAction(CODE[str[i]]), i + 1)
    ELSE IF str[i] = "v" THEN Parsed(ParseAction("VARIANT"), i + 1)
    ELSE IF str[i] = "a"
    THEN IF i + 1 <= Len(str) /\ str[i + 1] = "{"
         THEN \* 'a' '{' CODE COMPLETE '}'
              IF i + 2 <= Len(str) /\ str[i + 2] \in DOMAIN CODE
              THEN LET key == ParseAction(CODE[str[i + 2]])
                       value == COMPLETE(str, i + 3)
                   IN IF value.ok /\ value.next <= Len(str) /\ str[value.next] = "}"
                      THEN Parsed(_handleArray(<<Lit("a"), Lit("{"), key,
                                                 value.tok, Lit("}")>>),
                                  value.next + 1)
                      ELSE NoMatch(i)
              ELSE NoMatch(i)
         ELSE \* 'a' COMPLETE
              LET element == COMPLETE(str, i + 1)
              IN IF element.ok
                 THEN Parsed(_handleArray(<<Lit("a"), element.tok>>), element.next)
                 ELSE NoMatch(i)
    ELSE IF str[i] = "("
    THEN \* '(' OneOrMore(COMPLETE) ')'
         LET members == ZeroOrMoreCOMPLETE(str, i + 1)
         IN IF members.toks /= <<>> /\ members.next <= Len(str)
               /\ str[members.next] = ")"
            THEN Parsed(_handleStruct(<<Lit("(")>> \o members.toks \o <<Lit(")")>>),
                        members.next + 1)
            ELSE NoMatch(i)
    ELSE NoMatch(i)

\* PARSER.parseString(sig, parseAll=True): every character must be consumed
PARSER(sig) ==
    LET all == ZeroOrMoreCOMPLETE(sig, 1)
    IN IF all.next = Len(sig) + 1 THEN all ELSE NoMatch(all.next)

(***************************************************************************)
(* The generated functions.  Call(node, expr, variant) is                  *)
(* func(expr, variant=variant) for the function func of a compiled node.   *)
(***************************************************************************)
RECURSIVE Call(_, _, _)

\* [func(x) for x in items]: every element is transformed with variant=0
CallEach(func, items) == [i \in 1..Len(items) |-> Call(func, items[i], 0)]

Objs(results) == [i \in 1..Len(results) |-> results[i].obj]
Levels(results) == [i \in 1..Len(results) |-> results[i].level]

\* EmptyLevel that takes every empty array or dict for one of variants
EmptyLevel_one(sig_) == 1

\* the level of an empty array or dict that no element has set
EmptyLevel_zero(sig_) == 0

\* 1 if 'v' in sig else 0: the level of an empty array or dict
EmptyLevel(sig_) == IF Contains(sig_, "v") THEN 1 ELSE 0

\* WrongLength that lets a longer list pass
WrongLength_short(a_list, funcs_) == Len(Iter(a_list)) < Len(funcs_)

\* len(a_list) != len(funcs)
WrongLength(a_list, funcs_) == Len(Iter(a_list)) /= Len(funcs_)

\* _handleVariant.the_func with the variant level passed on as it came
VariantFunc_same_level(a_tuple, variant) ==
    IF ~Iterable(a_tuple) THEN Raise("TypeError", PyNone)
    ELSE IF Len(Iter(a_tuple)) /= 2 THEN Raise("ValueError", PyNone)
    ELSE LET signature_ == Iter(a_tuple)[1]
             an_obj == Iter(a_tuple)[2]
         IN IF ~IsText(signature_) THEN Raise("AttributeError", PyNone)
            ELSE LET parse == COMPLETE(signature_.s, 1)
                 IN IF ~parse.ok THEN Raise("ParseException", PyNone)
                    ELSE IF parse.tok.sig /= signature_.s
                    THEN Raise("AssertionError", PyNone)
                    ELSE LET r == Call(parse.tok, an_obj, variant)
                         IN IF r.exc /= "None" THEN r
                            ELSE Return(r.obj, r.obj.variant_level)

\* _handleVariant.the_func
VariantFunc(a_tuple, variant) ==
    \* (signature, an_obj) = a_tuple
    IF ~Iterable(a_tuple) THEN Raise("TypeError", PyNone)
    ELSE IF Len(Iter(a_tuple)) /= 2 THEN Raise("ValueError", PyNone)
    ELSE LET signature_ == Iter(a_tuple)[1]
             an_obj == Iter(a_tuple)[2]
         IN \* (func, sig) = self.COMPLETE.parseString(signature)[0]
            IF ~IsText(signature_) THEN Raise("AttributeError", PyNone)
            ELSE LET parse == COMPLETE(signature_.s, 1)
                 IN IF ~parse.ok THEN Raise("ParseException", PyNone)
                    \* assert sig == signature
                    ELSE IF parse.tok.sig /= signature_.s
                    THEN Raise("AssertionError", PyNone)
                    ELSE LET r == Call(parse.tok, an_obj, variant + 1)
                         IN IF r.exc /= "None" THEN r
                            ELSE Return(r.obj, r.obj.variant_level)

\* _handleArray.the_func, for a dict
DictFunc(node, a_dict, variant) ==
    \* a_dict.items()
    IF ~IsDict(a_dict) THEN Raise("AttributeError", PyNone)
    ELSE LET key_func == node.subs[1]
             value_func == node.subs[2]
             n == Len(a_dict.items)
             \* key_func(x), value_func(y) of each item, in this order
             elements == [i \in 1..(2 * n) |->
                            IF i % 2 = 1
                            THEN Call(key_func, a_dict.items[(i + 1) \div 2].items[1], 0)
                            ELSE Call(value_func, a_dict.items[i \div 2].items[2], 0)]
             bad == FirstRaise(elements)
             level == IF n = 0
                      THEN EmptyLevel(InnerSignature(node))
                      ELSE MaxOf(Levels(elements))
             levels == _variant_levels(level, variant)
         IN IF bad /= 0 THEN elements[bad]
            ELSE Return(
                   DbusDictionary(
                      [i \in 1..n |-> PyTuple(<<elements[2 * i - 1].obj,
                                                elements[2 * i].obj>>)],
                      InnerSignature(node),
                      levels[1]),
                   levels[2])

\* _handleArray.the_func, for an array
ArrayFunc(node, a_list, variant) ==
    IF IsDict(a_list) THEN Raise("IntoDPValueError", a_list)
    ELSE IF ~Iterable(a_list) THEN Raise("TypeError", PyNone)
    ELSE LET func == node.subs[1]
             sig == node.subs[1].sig
             elements == CallEach(func, Iter(a_list))
             bad == FirstRaise(elements)
             level == IF elements = <<>>
                      THEN EmptyLevel(sig)
                      ELSE MaxOf(Levels(elements))
             levels == _variant_levels(level, variant)
         IN IF bad /= 0 THEN elements[bad]
            ELSE Return(DbusArray(Objs(elements), sig, levels[1]), levels[2])

\* _handleStruct.the_func
StructFunc(node, a_list, variant) ==
    IF IsDict(a_list) THEN Raise("IntoDPValueError", a_list)
    \* len(a_list)
    ELSE IF ~Iterable(a_list) THEN Raise("TypeError", PyNone)
    ELSE IF WrongLength(a_list, node.subs) THEN Raise("IntoDPValueError", a_list)
    ELSE LET elements == [i \in 1..Len(node.subs) |->
                            Call(node.subs[i], Iter(a_list)[i], 0)]
             bad == FirstRaise(elements)
             level == IF elements = <<>> THEN 0 ELSE MaxOf(Levels(elements))
             levels == _variant_levels(level, variant)
         IN IF bad /= 0 THEN elements[bad]
            ELSE Return(DbusStruct(Objs(elements), InnerSignature(node), levels[1]),
                        levels[2])

\* _handleBaseCase.the_func
BaseFunc(node, v, variant) ==
    LET levels == _variant_levels(0, variant)
        made == Construct(node.klass, v, levels[1])
    IN IF made.exc /= "None" THEN made ELSE Return(made.obj, levels[2])

Call(node, expr, variant) ==
    CASE node.kind = "variant" -> VariantFunc(expr, variant)
      [] node.kind = "dict" -> DictFunc(node, expr, variant)
      [] node.kind = "array" -> ArrayFunc(node, expr, variant)
      [] node.kind = "struct" -> StructFunc(node, expr, variant)
      [] node.kind = "base" -> BaseFunc(node, expr, variant)

\* _wrapper(func)(expr): Type- and ValueErrors become IntoDPValueErrors
_wrapper(func, expr) ==
    LET r == Call(func, expr, 0)
    IN IF r.exc \in {"TypeError", "ValueError"}
       THEN Raise("IntoDPValueError", expr)
       ELSE r

\* xformers(sig): the (function, signature) pairs, each function to be called
\* through _wrapper; or the parser's exception
xformers(sig) == PARSER(sig)

\* what xformer(signature)(objects) returns or raises
Transformed(values) == [exc |-> "None", obj |-> PyNone, values |-> values]
Failed(r) == [exc |-> r.exc, obj |-> r.obj, values |-> <<>>]

\* xformer(signature)(objects), for a signature that parses
xformer(signature_, objects) ==
    LET funcs == xformers(signature_).toks
    IN \* len(objects)
       IF ~Iterable(objects) THEN Failed(Raise("TypeError", PyNone))
       ELSE IF WrongLength(objects, funcs)
       THEN Failed(Raise("IntoDPValueError", objects))
       ELSE LET results == [i \in 1..Len(funcs) |->
                              _wrapper(funcs[i], Iter(objects)[i])]
                bad == FirstRaise(results)
            IN IF bad /= 0 THEN Failed(results[bad])
               ELSE Transformed(Objs(results))

(***************************************************************************)
(* signature(dbus_object, unpack=...) of _signature.py: the signature, or  *)
(* the IntoDPSignatureError raised.                                        *)
(***************************************************************************)
SigReturn(sig) == [exc |-> "None", sig |-> sig]
SigRaise == [exc |-> "IntoDPSignatureError", sig |-> <<>>]

\* whether the object has the attribute: the dbus-python classes and the
\* tests' TestObject have a variant_level, plain Python objects have none
HasAttr(dbus_object, name) ==
    name = "variant_level" /\ dbus_object.t \in DbusTypes \union {"TestObject"}

\* HasVariantLevel that finds the attribute on every object
HasVariantLevel_always(dbus_object) == TRUE

\* hasattr(dbus_object, "variant_level")
HasVariantLevel(dbus_object) == HasAttr(dbus_object, "variant_level")

\* ScalarCode with the codes of Int16 and UInt16 taken for one another
ScalarCode_swapped(t) ==
    CASE t = "Boolean" -> "b"
      [] t = "Byte" -> "y"
      [] t = "Double" -> "d"
      [] t = "Int16" -> "q"
      [] t = "Int32" -> "i"
      [] t = "Int64" -> "x"
      [] t = "ObjectPath" -> "o"
      [] t = "Signature" -> "g"
      [] t = "String" -> "s"
      [] t = "UInt16" -> "n"
      [] t = "UInt32" -> "u"
      [] t = "UInt64" -> "t"
      [] t = "UnixFd" -> "h"

\* the code signature() returns for an object of a dbus scalar class
ScalarCode(t) ==
    CASE t = "Boolean" -> "b"
      [] t = "Byte" -> "y"
      [] t = "Double" -> "d"
      [] t = "Int16" -> "n"
      [] t = "Int32" -> "i"
      [] t = "Int64" -> "x"
      [] t = "ObjectPath" -> "o"
      [] t = "Signature" -> "g"
      [] t = "String" -> "s"
      [] t = "UInt16" -> "q"
      [] t = "UInt32" -> "u"
      [] t = "UInt64" -> "t"
      [] t = "UnixFd" -> "h"

\* InVariant that does not look at unpack
InVariant_packed(dbus_object, unpack_) == dbus_object.variant_level /= 0

\* dbus_object.variant_level != 0 and not unpack
InVariant(dbus_object, unpack_) == dbus_object.variant_level /= 0 /\ ~unpack_

\* Varying that lets two signatures pass
Varying_three(sigs) == Cardinality(sigs) > 2

\* len_sigs > 1
Varying(sigs) == Cardinality(sigs) > 1

RECURSIVE signature(_, _)
signature(dbus_object, unpack_) ==
    IF ~HasVariantLevel(dbus_object) THEN SigRaise
    \* dbus_object.variant_level
    ELSE IF ~HasAttr(dbus_object, "variant_level")
    THEN [exc |-> "AttributeError", sig |-> <<>>]
    ELSE IF InVariant(dbus_object, unpack_) THEN SigReturn(<<"v">>)
    ELSE IF dbus_object.t = "Array"
    THEN LET each == [i \in 1..Len(dbus_object.items) |->
                        signature(dbus_object.items[i], FALSE)]
             sigs == {each[i].sig : i \in 1..Len(each)}
         IN IF FirstRaise(each) /= 0 THEN each[FirstRaise(each)]
            ELSE IF Varying(sigs) THEN SigRaise
            ELSE IF Cardinality(sigs) = 0
            THEN SigReturn(<<"a">> \o dbus_object.signature)
            ELSE SigReturn(<<"a">> \o (CHOOSE x \in sigs : TRUE))
    ELSE IF dbus_object.t = "Struct"
    THEN LET each == [i \in 1..Len(dbus_object.items) |->
                        signature(dbus_object.items[i], FALSE)]
         IN IF FirstRaise(each) /= 0 THEN each[FirstRaise(each)]
            ELSE SigReturn(<<"(">> \o Join([i \in 1..Len(each) |-> each[i].sig])
                           \o <<")">>)
    ELSE IF dbus_object.t = "Dictionary"
    THEN LET keys == [i \in 1..Len(dbus_object.items) |->
                        signature(dbus_object.items[i].items[1], FALSE)]
             values == [i \in 1..Len(dbus_object.items) |->
                          signature(dbus_object.items[i].items[2], FALSE)]
             key_sigs == {keys[i].sig : i \in 1..Len(keys)}
             value_sigs == {values[i].sig : i \in 1..Len(values)}
         IN IF FirstRaise(keys) /= 0 THEN keys[FirstRaise(keys)]
            ELSE IF FirstRaise(values) /= 0 THEN values[FirstRaise(values)]
            ELSE IF Cardinality(key_sigs) /= Cardinality(value_sigs) THEN SigRaise
            ELSE IF Varying(key_sigs) THEN SigRaise
            ELSE IF Cardinality(key_sigs) = 0
            THEN SigReturn(<<"a", "{">> \o dbus_object.signature \o <<"}">>)
            ELSE SigReturn(<<"a", "{">> \o (CHOOSE x \in key_sigs : TRUE)
                           \o (CHOOSE x \in value_sigs : TRUE) \o <<"}">>)
    ELSE IF dbus_object.t \in DbusScalarTypes
    THEN SigReturn(<<ScalarCode(dbus_object.t)>>)
    ELSE SigRaise

(***************************************************************************)
(* The inputs of a run: the signatures and the plain Python values the     *)
(* caller may pass, within the bounds.                                     *)
(***************************************************************************)
\* the longest complete type of a signature
MaxSigLen == 5
\* the longest signature embedded in a wrapper tuple
MaxEmbLen == 2
\* the most Python objects an input value is built of
MaxWeight == 7
\* the most elements of a list
MaxLen == 2

\* the basic type codes the signatures are built of
Atoms == {"b", "y", "v"}
KeyAtoms == {"b", "y"}
\* the codes of all the basic types the tests generate values for
ScalarCodes == {"y", "b", "n", "q", "i", "u", "x", "t", "d", "s", "o", "g"}

RECURSIVE Types(_)
RECURSIVE TypeSeqs(_)

\* the complete types of exactly n characters
Types(n) ==
    IF n < 1 THEN {}
    ELSE IF n = 1 THEN {<<c>> : c \in Atoms}
    ELSE {<<"a">> \o s : s \in Types(n - 1)}
         \union {<<"a", "{", k>> \o s \o <<"}">> : k \in KeyAtoms, s \in Types(n - 4)}
         \union {<<"(">> \o m \o <<")">> : m \in TypeSeqs(n - 2)}

\* the concatenations of one or more complete types, of n characters in all
TypeSeqs(n) ==
    IF n < 1 THEN {}
    ELSE Types(n)
         \union UNION {{h \o r : h \in Types(j), r \in TypeSeqs(n - j)} :
                       j \in 1..(n - 1)}

TypesUpTo(n) == UNION {Types(k) : k \in 1..n}

EmbeddedSigs == TypesUpTo(MaxEmbLen)

RECURSIVE Weight(_)
RECURSIVE SumWeights(_)
SumWeights(items) ==
    IF items = <<>> THEN 0 ELSE Weight(Head(items)) + SumWeights(Tail(items))

\* the number of Python objects a value is built of
Weight(v) == 1 + SumWeights(v.items)

\* the values of a basic type
ScalarValues(klass) ==
    CASE klass = "Boolean" -> <<PyBool(FALSE), PyBool(TRUE)>>
      [] klass = "ObjectPath" -> <<PyStr(<<"/">>), PyStr(<<"/", "a">>)>>
      [] klass \in {"String", "Signature"} -> <<PyStr(<<>>), PyStr(<<"b">>)>>
      [] OTHER -> <<PyInt(0), PyInt(1)>>

RECURSIVE Inhabitants(_, _)
RECURSIVE ListsOf(_, _, _)
RECURSIVE TuplesOf(_, _)
RECURSIVE DictsOf(_, _, _)

\* the lists of at most k values shaped to match node, of weight at most w
ListsOf(node, w, k) ==
    {<<>>} \union
    (IF k = 0 THEN {}
     ELSE UNION {{<<h>> \o r : r \in ListsOf(node, w - Weight(h), k - 1)} :
                 h \in Inhabitants(node, w)})

\* the tuples of values shaped to match the nodes subs, one each
TuplesOf(subs, w) ==
    IF subs = <<>> THEN {<<>>}
    ELSE UNION {{<<h>> \o r : r \in TuplesOf(Tail(subs), w - Weight(h))} :
                h \in Inhabitants(Head(subs), w)}

\* the (key, value) pairs of the dicts over some of keys, in this order
DictsOf(node, keys, w) ==
    IF keys = <<>> THEN {<<>>}
    ELSE DictsOf(node, Tail(keys), w) \union
         UNION {{<<PyTuple(<<Head(keys), x>>)>> \o r :
                   r \in DictsOf(node, Tail(keys), w - 2 - Weight(x))} :
                x \in Inhabitants(node.subs[2], w - 2)}

\* the plain values shaped to match a compiled node, of weight at most w
Inhabitants(node, w) ==
    IF w < 1 THEN {}
    ELSE CASE node.kind = "base" ->
                {ScalarValues(node.klass)[i] : i \in 1..2}
           [] node.kind = "variant" ->
                UNION {{PyTuple(<<PyStr(e), x>>) :
                          x \in Inhabitants(COMPLETE(e, 1).tok, w - 2)} :
                       e \in EmbeddedSigs}
           [] node.kind = "array" ->
                {PyList(l) : l \in ListsOf(node.subs[1], w - 1, MaxLen)}
           [] node.kind = "dict" ->
                {PyDict(d) : d \in DictsOf(node, ScalarValues(node.subs[1].klass), w - 1)}
           [] node.kind = "struct" ->
                {PyTuple(m) : m \in TuplesOf(node.subs, w - 1)}

(***************************************************************************)
(* Inputs that do not match the signature: each holds one fault, at the    *)
(* top of the value or inside it.                                          *)
(***************************************************************************)
Faults ==
    {"struct_extra", "struct_short", "struct_dict", "array_dict", "dict_list",
     "variant_arity", "variant_badsig", "variant_prefix", "base_type",
     "base_range"}

\* values of a Python type that the class does not take; Boolean and String
\* take any object
WrongType(klass) ==
    CASE klass \in {"Boolean", "String"} -> {}
      [] klass \in {"ObjectPath", "Signature"} -> {PyInt(1), PyList(<<>>)}
      [] OTHER -> {PyStr(<<"s">>), PyList(<<>>)}

\* values of the right Python type that the class does not take
OutOfRange(klass) ==
    CASE klass = "Byte" -> {PyInt(-1), PyInt(256)}
      [] klass = "Int16" -> {PyInt(-32769), PyInt(32768)}
      [] klass = "UInt16" -> {PyInt(-1), PyInt(65536)}
      [] klass \in {"UInt32", "UInt64", "UnixFd"} -> {PyInt(-1)}
      [] klass = "ObjectPath" -> {PyStr(<<"a">>)}
      [] OTHER -> {}

\* the values of the fault for this node itself
FaultHere(node, w, fault) ==
    CASE fault = "struct_extra" /\ node.kind = "struct" ->
           {PyTuple(Append(m, PyInt(1))) : m \in TuplesOf(node.subs, w - 2)}
      [] fault = "struct_short" /\ node.kind = "struct" ->
           {PyTuple(SubSeq(m, 1, Len(m) - 1)) : m \in TuplesOf(node.subs, w - 1)}
      [] fault = "struct_dict" /\ node.kind = "struct" ->
           {PyDict(<<>>), PyDict(<<PyTuple(<<PyBool(TRUE), PyBool(TRUE)>>)>>)}
      [] fault = "array_dict" /\ node.kind = "array" ->
           {PyDict(<<>>), PyDict(<<PyTuple(<<PyBool(TRUE), PyBool(TRUE)>>)>>)}
      [] fault = "dict_list" /\ node.kind = "dict" ->
           {PyList(<<>>), PyList(<<PyBool(TRUE)>>)}
      [] fault = "variant_arity" /\ node.kind = "variant" ->
           {PyTuple(<<PyStr(<<"b">>)>>),
            PyTuple(<<PyStr(<<"b">>), PyBool(FALSE), PyBool(FALSE)>>),
            PyDict(<<PyTuple(<<PyBool(TRUE), PyBool(TRUE)>>)>>)}
      [] fault = "variant_badsig" /\ node.kind = "variant" ->
           {PyTuple(<<PyStr(e), PyBool(FALSE)>>) :
              e \in {<<>>, <<"a">>, <<"(", "b">>, <<"a", "{", "v", "b", "}">>}}
      [] fault = "variant_prefix" /\ node.kind = "variant" ->
           {PyTuple(<<PyStr(e), PyBool(FALSE)>>) :
              e \in {<<"b", "b">>, <<"b", "a">>}}
      [] fault = "base_type" /\ node.kind = "base" -> WrongType(node.klass)
      [] fault = "base_range" /\ node.kind = "base" -> OutOfRange(node.klass)
      [] OTHER -> {}

RECURSIVE Faulty(_, _, _)
RECURSIVE FaultyTuples(_, _, _)

\* the tuples for the nodes subs with the fault in exactly one member
FaultyTuples(subs, w, fault) ==
    IF subs = <<>> THEN {}
    ELSE UNION {{<<h>> \o r : r \in TuplesOf(Tail(subs), w - Weight(h))} :
                h \in Faulty(Head(subs), w, fault)}
         \union
         UNION {{<<h>> \o r : r \in FaultyTuples(Tail(subs), w - Weight(h), fault)} :
                h \in Inhabitants(Head(subs), w)}

\* the values for node that hold the fault once, of weight at most w
Faulty(node, w, fault) ==
    IF w < 1 THEN {}
    ELSE FaultHere(node, w, fault) \union
         CASE node.kind = "base" -> {}
           [] node.kind = "variant" ->
                UNION {{PyTuple(<<PyStr(e), x>>) :
                          x \in Faulty(COMPLETE(e, 1).tok, w - 2, fault)} :
                       e \in EmbeddedSigs}
           [] node.kind = "array" ->
                {PyList(<<x>>) : x \in Faulty(node.subs[1], w - 1, fault)}
           [] node.kind = "dict" ->
                {PyDict(<<PyTuple(<<ScalarValues(node.subs[1].klass)[1], x>>)>>) :
                   x \in Faulty(node.subs[2], w - 3, fault)}
           [] node.kind = "struct" ->
                {PyTuple(m) : m \in FaultyTuples(node.subs, w - 1, fault)}

(***************************************************************************)
(* Signatures of several complete types, for xformer's own check.          *)
(***************************************************************************)
\* the most complete types of a signature
MaxTop == 2

RECURSIVE TopTypes(_)
\* the sequences of at most n complete types
TopTypes(n) ==
    IF n = 0 THEN {<<>>}
    ELSE TopTypes(n - 1) \union
         {Append(ts, e) : ts \in {x \in TopTypes(n - 1) : Len(x) = n - 1},
                          e \in EmbeddedSigs}

\* the compiled nodes of a sequence of complete types
NodesOf(ts) == [i \in 1..Len(ts) |-> COMPLETE(ts[i], 1).tok]

\* signatures the grammar rejects
BadSignatures ==
    {<<"a">>, <<"(", ")">>, <<"(", "b">>, <<"a", "{", "v", "b", "}">>,
     <<"b", ")">>, <<"a", "{", "b", "}">>, <<"a", "{", "b", "b", "b", "}">>}

(***************************************************************************)
(* dbus-python values constructed by means other than the functions        *)
(* generated here.                                                         *)
(***************************************************************************)
\* the greatest variant level of such a value
MaxForeignLevel == 2

\* an object that has a variant_level and is no dbus-python object
TestObject(vl) == MkObj("TestObject", 0, <<>>, <<>>, vl, <<>>)

ForeignScalars ==
    {MkObj(t, 0, <<>>, <<>>, vl, <<>>) :
       t \in {"Boolean", "Byte"}, vl \in 0..MaxForeignLevel}

ForeignLeaves ==
    ForeignScalars \union {PyStr(<<"w">>), TestObject(0), TestObject(1)}

ForeignItems ==
    {<<>>} \union {<<x>> : x \in ForeignLeaves}
    \union {<<x, y>> : x \in ForeignLeaves, y \in ForeignLeaves}

ForeignPairs ==
    {<<>>}
    \union {<<PyTuple(<<MkObj("Byte", 0, <<>>, <<>>, 0, <<>>), x>>)>> :
              x \in ForeignLeaves}
    \union {<<PyTuple(<<MkObj("Byte", 0, <<>>, <<>>, 0, <<>>), x>>),
              PyTuple(<<MkObj("Byte", 1, <<>>, <<>>, 0, <<>>), y>>)>> :
              x \in ForeignLeaves, y \in ForeignLeaves}

ForeignObjects ==
    ForeignLeaves
    \union {DbusArray(items, sg, vl) :
              items \in ForeignItems, sg \in {<<"b">>, <<"v">>}, vl \in 0..1}
    \union {DbusStruct(items, <<>>, vl) : items \in ForeignItems, vl \in 0..1}
    \union {MkObj("Dictionary", 0, <<>>, pairs, vl, <<"y", "v">>) :
              pairs \in ForeignPairs, vl \in 0..1}

(***************************************************************************)
(* A run: a caller compiles a signature with xformers, calls each function *)
(* it got on the matching object, calls xformer(signature)(objects), and   *)
(* asks signature() for the signature of each object transformed.  Or a    *)
(* caller asks signature() about an object made elsewhere.                 *)
(***************************************************************************)
VARIABLES
    pc,        \* where the caller is
    sig,       \* the signature given to xformers and xformer
    types,     \* the complete types sig was written as, in order
    objects,   \* the list of objects to transform
    fault,     \* "none", or how objects fail to match sig
    funcs,     \* the (function, signature) pairs xformers returned
    pairs,     \* what each function returned or raised, up to the first raise
    outcome,   \* what xformer(sig)(objects) returned or raised
    unpack,    \* the unpack argument of signature()
    inferred   \* what signature() returned or raised, for each object

vars == <<pc, sig, types, objects, fault, funcs, pairs, outcome, unpack, inferred>>

Pending == [exc |-> "pending", obj |-> PyNone, values |-> <<>>]

Begin(p, ts, s, objs, f) ==
    /\ pc = p
    /\ types = ts
    /\ sig = s
    /\ objects = objs
    /\ fault = f
    /\ funcs = <<>>
    /\ pairs = <<>>
    /\ outcome = Pending
    /\ unpack = FALSE
    /\ inferred = <<>>

\* one complete type and a value shaped to match it
InitMatching ==
    \E s \in TypesUpTo(MaxSigLen) :
      \E v \in Inhabitants(COMPLETE(s, 1).tok, MaxWeight) :
        Begin("start", <<s>>, s, PyList(<<v>>), "none")

\* every basic type code alone, and but for 'h' in an array and in a struct,
\* and a value shaped to match
InitScalarCodes ==
    \E c \in DOMAIN CODE :
      \E s \in (IF c \in ScalarCodes
                THEN {<<c>>, <<"a", c>>, <<"(", c, c, ")">>}
                ELSE {<<c>>}) :
        \E v \in Inhabitants(COMPLETE(s, 1).tok, MaxWeight) :
          Begin("start", <<s>>, s, PyList(<<v>>), "none")

\* every basic type code, alone and in an array, and a value its class
\* does not take
InitFaultyScalarCodes ==
    \E c \in DOMAIN CODE, f \in {"base_type", "base_range"} :
      \E s \in {<<c>>, <<"a", c>>} :
        \E v \in Faulty(COMPLETE(s, 1).tok, MaxWeight, f) :
          Begin("start", <<s>>, s, PyList(<<v>>), f)

\* one complete type and a value with a fault
InitFaulty ==
    \E s \in TypesUpTo(MaxSigLen), f \in Faults :
      \E v \in Faulty(COMPLETE(s, 1).tok, MaxWeight - 2, f) :
        Begin("start", <<s>>, s, PyList(<<v>>), f)

\* one complete type that is not a basic type, and a text for a value
InitText ==
    \E s \in {t \in TypesUpTo(MaxSigLen) : COMPLETE(t, 1).tok.kind /= "base"} :
      \E v \in {PyStr(<<"a">>), PyStr(<<"a", "b">>), PyStr(<<"v", "b">>)} :
        Begin("start", <<s>>, s, PyList(<<v>>), "text")

\* some complete types and as many values, one more or one less
InitSeveral ==
    \E ts \in TopTypes(MaxTop) :
      \E m \in TuplesOf(NodesOf(ts), MaxWeight - 3) :
        \/ Begin("start", ts, Join(ts), PyList(m), "none")
        \/ Begin("start", ts, Join(ts), PyList(Append(m, PyInt(1))), "arity_more")
        \/ /\ m /= <<>>
           /\ Begin("start", ts, Join(ts), PyList(SubSeq(m, 1, Len(m) - 1)),
                    "arity_less")

\* a signature the grammar rejects
InitBadSignature ==
    \E s \in BadSignatures :
      Begin("start", <<>>, s, PyList(<<>>), "bad_signature")

\* the most wrapper tuples around an empty array or dict
MaxWrap == 2

RECURSIVE Wrapped(_, _)
\* v inside d wrapper tuples more, each embedding "v"
Wrapped(v, d) ==
    IF d = 0 THEN v ELSE PyTuple(<<PyStr(<<"v">>), Wrapped(v, d - 1)>>)

\* "v" and an empty list or dict for an array or dict signature with a 'v' in
\* it, inside one wrapper tuple or more
InitEmptyWrapped ==
    \E e \in {t \in TypesUpTo(MaxSigLen) : Head(t) = "a" /\ Contains(t, "v")},
       d \in 1..MaxWrap :
      LET empty == IF COMPLETE(e, 1).tok.kind = "dict"
                   THEN PyDict(<<>>) ELSE PyList(<<>>)
      IN Begin("start", <<<<"v">>>>, <<"v">>,
               PyList(<<Wrapped(PyTuple(<<PyStr(e), empty>>), d - 1)>>), "none")

\* an object made elsewhere, for signature()
InitForeign ==
    \E o \in ForeignObjects :
      Begin("foreign", <<>>, <<>>, PyList(<<o>>), "foreign")

Init ==
    \/ InitMatching
    \/ InitScalarCodes
    \/ InitFaultyScalarCodes
    \/ InitFaulty
    \/ InitText
    \/ InitSeveral
    \/ InitBadSignature
    \/ InitEmptyWrapped
    \/ InitForeign

\* results, cut after the first that raised
UpToFirstRaise(results) ==
    IF FirstRaise(results) = 0 THEN results
    ELSE SubSeq(results, 1, FirstRaise(results))

Min(a, b) == IF a <= b THEN a ELSE b

\* xformers(sig)
Xformers ==
    /\ pc = "start"
    /\ IF xformers(sig).ok
       THEN /\ funcs' = xformers(sig).toks
            /\ pc' = "compiled"
            /\ UNCHANGED outcome
       ELSE /\ outcome' = Failed(Raise("ParseException", PyNone))
            /\ pc' = "raised"
            /\ UNCHANGED funcs
    /\ UNCHANGED <<sig, types, objects, fault, pairs, unpack, inferred>>

\* [f(x) for (f, x) in zip(funcs, objects)], f a function xformers returned
ApplyEach ==
    /\ pc = "compiled"
    /\ pairs' = UpToFirstRaise(
                   [i \in 1..Min(Len(funcs), Len(Iter(objects))) |->
                      _wrapper(funcs[i], Iter(objects)[i])])
    /\ pc' = "applied"
    /\ UNCHANGED <<sig, types, objects, fault, funcs, outcome, unpack, inferred>>

\* xformer(sig)(objects)
Xformer ==
    /\ pc = "applied"
    /\ outcome' = xformer(sig, objects)
    /\ pc' = "transformed"
    /\ UNCHANGED <<sig, types, objects, fault, funcs, pairs, unpack, inferred>>

\* signature(value, unpack=u) of each object xformer returned
Signature ==
    /\ pc = "transformed"
    /\ outcome.exc = "None"
    /\ \E u \in BOOLEAN :
         /\ unpack' = u
         /\ inferred' = [i \in 1..Len(outcome.values) |->
                           signature(outcome.values[i], u)]
    /\ pc' = "inferred"
    /\ UNCHANGED <<sig, types, objects, fault, funcs, pairs, outcome>>

\* signature(value, unpack=u) of an object made elsewhere
SignatureForeign ==
    /\ pc = "foreign"
    /\ \E u \in BOOLEAN :
         /\ unpack' = u
         /\ inferred' = <<signature(objects.items[1], u)>>
    /\ pc' = "inferred"
    /\ UNCHANGED <<sig, types, objects, fault, funcs, pairs, outcome>>

Next ==
    \/ Xformers
    \/ ApplyEach
    \/ Xformer
    \/ Signature
    \/ SignatureForeign

Spec == Init /\ [][Next]_vars

(***************************************************************************)
(* The claims.  _xformer.py raises IntoDPValueError where the              *)
(* specification speaks of UnexpectedValue: it is the same kind of error,  *)
(* under the name this version of the code gives it.                       *)
(***************************************************************************)
UnexpectedValue == "IntoDPValueError"
SignatureError == "IntoDPSignatureError"

\* the calls of the generated functions are over
Called == pc \in {"transformed", "inferred"} /\ fault /= "foreign"

\* the object given for the only complete type of sig, and the object made of it
TheInput == objects.items[1]
TheValue == outcome.values[1]

Fragments ==
    pc \in {"compiled", "applied", "transformed"} =>
        /\ Len(funcs) = Len(types)
        /\ \A i \in 1..Len(types) : funcs[i].sig = types[i]
        /\ Join([i \in 1..Len(funcs) |-> funcs[i].sig]) = sig

\* C2 witness: two complete types, the first an array compiled to its own text
FragmentsWitness ==
    /\ pc = "compiled"
    /\ sig = <<"a", "v", "y">>
    /\ Len(funcs) = 2
    /\ funcs[1].sig = <<"a", "v">>
    /\ funcs[2].sig = <<"y">>

\* C3: a struct function given a sequence with one element more or one less
\* than the struct has members fails with UnexpectedValue, wherever the struct
\* is in the value; given a sequence shaped to match it returns a Struct of
\* as many elements, the i-th the transform of the i-th element given.
StructArity ==
    /\ (Called /\ fault \in {"struct_extra", "struct_short"}) =>
          /\ outcome.exc = UnexpectedValue
          /\ pairs[Len(pairs)].exc = UnexpectedValue
    /\ (Called /\ fault = "none" /\ Len(funcs) = 1 /\ funcs[1].kind = "struct") =>
          /\ outcome.exc = "None"
          /\ TheValue.t = "Struct"
          /\ Len(TheValue.items) = Len(funcs[1].subs)
          /\ \A i \in 1..Len(funcs[1].subs) :
                TheValue.items[i] = Call(funcs[1].subs[i], TheInput.items[i], 0).obj

\* C3 witness: "(yy)" given three elements
StructArityWitness ==
    /\ pc = "transformed" /\ fault = "struct_extra"
    /\ sig = <<"(", "y", "y", ")">>
    /\ Len(TheInput.items) = 3
    /\ outcome.exc = UnexpectedValue

\* C4: the function xformer returns fails with UnexpectedValue when the number
\* of objects differs from the number of complete types of the signature, the
\* empty signature included; when it returns, it returns as many values, the
\* i-th what the i-th function made of the i-th object.
TopLevelArity ==
    Called =>
        IF Len(objects.items) /= Len(types)
        THEN outcome.exc = UnexpectedValue
        ELSE outcome.exc = "None" =>
                /\ Len(outcome.values) = Len(types)
                /\ Len(pairs) = Len(types)
                /\ \A i \in 1..Len(types) :
                      pairs[i].exc = "None" /\ outcome.values[i] = pairs[i].obj

\* C4 witness: the empty signature and one object
TopLevelArityWitness ==
    /\ pc = "transformed"
    /\ sig = <<>>
    /\ Len(objects.items) = 1
    /\ outcome.exc = UnexpectedValue

\* C5: an array function given a dict, empty or not, fails with
\* UnexpectedValue, wherever the array is in the value, and no Array is made.
ArrayRejectsMapping ==
    (Called /\ fault = "array_dict") =>
        /\ outcome.exc = UnexpectedValue
        /\ outcome.values = <<>>
        /\ pairs[Len(pairs)].exc = UnexpectedValue

\* C5 witness: "a(yy)" given an empty dict
ArrayRejectsMappingWitness ==
    /\ pc = "transformed" /\ fault = "array_dict"
    /\ sig = <<"a", "(", "y", "y", ")">>
    /\ TheInput = PyDict(<<>>)
    /\ outcome.exc = UnexpectedValue

RECURSIVE WrapperChain(_)
\* the number of wrapper tuples nested directly in one another, from a_tuple in
WrapperChain(a_tuple) ==
    IF a_tuple.items[1].s = <<"v">>
    THEN 1 + WrapperChain(a_tuple.items[2])
    ELSE 1

RECURSIVE InnermostSignature(_)
\* the signature embedded in the innermost of these wrapper tuples
InnermostSignature(a_tuple) ==
    IF a_tuple.items[1].s = <<"v">>
    THEN InnermostSignature(a_tuple.items[2])
    ELSE a_tuple.items[1].s

\* C6: for signature "v" and k wrapper tuples nested in one another, the
\* innermost embedding a type with no 'v' in it, the variant level of the
\* value produced is k.
NestedWrapperDepth ==
    (Called /\ fault = "none" /\ sig = <<"v">>
       /\ ~Contains(InnermostSignature(TheInput), "v")) =>
        /\ outcome.exc = "None"
        /\ TheValue.variant_level = WrapperChain(TheInput)

\* C6 witness: ("v", ("v", ("b", False))) gives a Boolean of variant level 3
NestedWrapperDepthWitness ==
    /\ pc = "transformed" /\ fault = "none" /\ sig = <<"v">>
    /\ TheInput = PyTuple(<<PyStr(<<"v">>),
                   PyTuple(<<PyStr(<<"v">>),
                     PyTuple(<<PyStr(<<"b">>), PyBool(FALSE)>>)>>)>>)
    /\ TheValue.t = "Boolean"
    /\ TheValue.variant_level = 3

RECURSIVE WrapperTuples(_, _, _)
\* The greatest number of wrapper tuples nested in one another anywhere in a
\* value shaped to match node; an empty array or dict of a signature with a
\* 'v' in it counts as empty_counts wrapper tuples.
WrapperTuples(node, v, empty_counts) ==
    LET deepest(nodes, values) ==
            IF values = <<>> THEN 0
            ELSE MaxOf([i \in 1..Len(values) |->
                          WrapperTuples(nodes[i], values[i], empty_counts)])
    IN CASE node.kind = "base" -> 0
         [] node.kind = "variant" ->
              1 + WrapperTuples(COMPLETE(v.items[1].s, 1).tok, v.items[2], empty_counts)
         [] node.kind = "array" ->
              IF v.items = <<>>
              THEN (IF Contains(node.subs[1].sig, "v") THEN empty_counts ELSE 0)
              ELSE deepest([i \in 1..Len(v.items) |-> node.subs[1]], v.items)
         [] node.kind = "dict" ->
              IF v.items = <<>>
              THEN (IF Contains(node.subs[2].sig, "v") THEN empty_counts ELSE 0)
              ELSE deepest([i \in 1..Len(v.items) |-> node.subs[2]],
                           [i \in 1..Len(v.items) |-> v.items[i].items[2]])
         [] node.kind = "struct" -> deepest(node.subs, v.items)

\* the places of a container: the node, the object given and the object made
Slots(node, given, made) ==
    CASE node.kind = "array" ->
           {<<node.subs[1], given.items[i], made.items[i]>> : i \in 1..Len(given.items)}
      [] node.kind = "struct" ->
           {<<node.subs[i], given.items[i], made.items[i]>> : i \in 1..Len(given.items)}
      [] node.kind = "dict" ->
           {<<node.subs[1], given.items[i].items[1], made.items[i].items[1]>> :
              i \in 1..Len(given.items)}
           \union
           {<<node.subs[2], given.items[i].items[2], made.items[i].items[2]>> :
              i \in 1..Len(given.items)}

\* an array, dict or struct was transformed at the top level
ContainerMade ==
    /\ Called /\ fault = "none" /\ Len(funcs) = 1
    /\ funcs[1].kind \in {"array", "dict", "struct"}
    /\ outcome.exc = "None"

ZeroPropagationWith(empty_counts) ==
    ContainerMade =>
        /\ TheValue.variant_level = 0
        /\ \A slot \in Slots(funcs[1], TheInput, TheValue) :
              IF slot[1].kind = "variant"
              THEN slot[3].variant_level = WrapperTuples(slot[1], slot[2], empty_counts)
              ELSE slot[3].variant_level = 0

UnpackFlag ==
    (pc = "inferred" /\ fault = "none" /\ sig = <<"v">>) =>
        /\ inferred[1].exc = "None"
        /\ IF unpack
           THEN inferred[1].sig /= <<>> /\ inferred[1].sig[1] /= "v"
           ELSE inferred[1].sig = <<"v">>

\* C8 witness: ("v", ("av", [])) unpacked gives "av"
UnpackFlagWitness ==
    /\ pc = "inferred" /\ fault = "none" /\ sig = <<"v">> /\ unpack
    /\ TheInput.items[1].s = <<"v">>
    /\ TheInput.items[2].items[1].s = <<"a", "v">>
    /\ inferred[1] = SigReturn(<<"a", "v">>)

\* the signatures the elements of an Array yield
ElementSignatures(array) ==
    {signature(array.items[i], FALSE).sig :
       i \in {j \in 1..Len(array.items) : signature(array.items[j], FALSE).exc = "None"}}

\* C9: signature() of an Array of variant level 0 whose elements yield two or
\* more signatures fails with SignatureError, whatever signature is stored on
\* the Array.
HeterogeneousRejected ==
    (pc = "inferred" /\ fault = "foreign"
       /\ TheInput.t = "Array" /\ TheInput.variant_level = 0
       /\ Cardinality(ElementSignatures(TheInput)) >= 2) =>
        inferred[1].exc = SignatureError

\* C9 witness: Array([Boolean(variant_level=2), Byte(0)], signature="v")
HeterogeneousRejectedWitness ==
    /\ pc = "inferred" /\ fault = "foreign"
    /\ TheInput = DbusArray(<<MkObj("Boolean", 0, <<>>, <<>>, 2, <<>>),
                              MkObj("Byte", 0, <<>>, <<>>, 0, <<>>)>>, <<"v">>, 0)
    /\ inferred[1].exc = SignatureError

\* the kinds of failure the functions may let out
Taxonomy == {UnexpectedValue, "IntoDPSurprisingError", "IntoDPImpossibleTokenError"}

\* C10: whatever fails in a function xformers returned or in the function
\* xformer returned comes out as UnexpectedValue, SurprisingError or
\* ImpossibleToken.
FailureBoundary ==
    /\ pc \in {"applied", "transformed"} =>
          \A i \in 1..Len(pairs) : pairs[i].exc \in Taxonomy \union {"None"}
    /\ pc = "transformed" => outcome.exc \in Taxonomy \union {"None"}

RECURSIVE Rejected(_, _)
\* the values, in a value shaped to match node, that the class of their basic
\* type does not take
Rejected(node, v) ==
    CASE node.kind = "base" ->
           IF Construct(node.klass, v, 0).exc /= "None" THEN {v} ELSE {}
      [] node.kind = "variant" ->
           Rejected(COMPLETE(v.items[1].s, 1).tok, v.items[2])
      [] node.kind = "array" ->
           UNION {Rejected(node.subs[1], v.items[i]) : i \in 1..Len(v.items)}
      [] node.kind = "dict" ->
           UNION {Rejected(node.subs[1], v.items[i].items[1])
                    \union Rejected(node.subs[2], v.items[i].items[2]) :
                  i \in 1..Len(v.items)}
      [] node.kind = "struct" ->
           UNION {Rejected(node.subs[i], v.items[i]) : i \in 1..Len(v.items)}

\* C11: when the class of a basic type does not take the value it is given,
\* for its type or for its range, at the top of the input or inside it, the
\* transformation fails with UnexpectedValue and the error carries the value
\* the class did not take.
ConstructionFailure ==
    (Called /\ fault \in {"base_type", "base_range"}) =>
        /\ outcome.exc = UnexpectedValue
        /\ {outcome.obj} = Rejected(funcs[1], TheInput)

\* C12: signature() fails with SignatureError for an object that has no
\* variant_level, unpack or not, and for an object of variant level 0 that is
\* no Array, Struct, Dictionary or scalar of dbus-python; no signature is
\* returned.
InferenceRejects ==
    (pc = "inferred" /\ fault = "foreign"
       /\ \/ ~HasAttr(TheInput, "variant_level")
          \/ TheInput.variant_level = 0 /\ TheInput.t \notin DbusTypes) =>
        inferred[1] = [exc |-> SignatureError, sig |-> <<>>]

\* C12 witness: signature("w", unpack=True)
InferenceRejectsWitness ==
    /\ pc = "inferred" /\ fault = "foreign" /\ unpack
    /\ TheInput = PyStr(<<"w">>)
    /\ inferred[1].exc = SignatureError

\* what the tests' _descending returns for no level: None
NoLevel == -1

RECURSIVE _descending(_)
\* _descending(dbus_object) of test_signature_parser.py: the level of the
\* object, or NoLevel when the variant levels do not descend
_descending(dbus_object) ==
    IF dbus_object.t \in {"Dictionary", "Array", "Struct"}
    THEN LET children ==
               IF dbus_object.t = "Dictionary"
               THEN [i \in 1..(2 * Len(dbus_object.items)) |->
                       dbus_object.items[(i + 1) \div 2].items[2 - (i % 2)]]
               ELSE dbus_object.items
             levels == [i \in 1..Len(children) |-> _descending(children[i])]
             max_level == IF levels = <<>> THEN 0 ELSE MaxOf(levels)
             variant_level == dbus_object.variant_level
         IN IF \E i \in 1..Len(levels) : levels[i] = NoLevel THEN NoLevel
            ELSE IF variant_level = 0 THEN max_level
            ELSE IF variant_level < max_level + 1 THEN NoLevel
            ELSE variant_level
    ELSE dbus_object.variant_level

\* C13: in every object made for a valid signature and a matching value, a
\* container of nonzero variant level has a variant level of at least one more
\* than the level of its contents: _descending never returns None.
Descending ==
    (Called /\ fault = "none" /\ outcome.exc = "None") =>
        \A i \in 1..Len(outcome.values) : _descending(outcome.values[i]) /= NoLevel

\* C13 witness: "v" given ("av", [("b", False)]): an Array of variant level 2
\* around a Boolean of variant level 1
DescendingWitness ==
    /\ Called /\ fault = "none" /\ sig = <<"v">>
    /\ TheInput = PyTuple(<<PyStr(<<"a", "v">>),
                   PyList(<<PyTuple(<<PyStr(<<"b">>), PyBool(FALSE)>>)>>)>>)
    /\ TheValue.t = "Array" /\ TheValue.variant_level = 2
    /\ TheValue.items[1].variant_level = 1
    /\ _descending(TheValue) = 2

\* C14: for a complete type with no 'v' in it and a matching value, the level
\* the function returns with the object, called with variant=0, is 0.
NoWrapperNoDepth ==
    (pc \in {"applied", "transformed", "inferred"} /\ fault = "none") =>
        \A i \in 1..Len(pairs) :
           ~Contains(funcs[i].sig, "v") =>
              pairs[i].exc = "None" /\ pairs[i].level = 0

\* C14 witness: "a{by}" given an empty dict returns level 0
NoWrapperNoDepthWitness ==
    /\ pc = "applied" /\ fault = "none"
    /\ sig = <<"a", "{", "b", "y", "}">>
    /\ TheInput = PyDict(<<>>)
    /\ pairs[1].exc = "None" /\ pairs[1].level = 0

\* a dict function given a dict shaped to match returns a Dictionary with one
\* entry for each item of the dict, the key transformed paired with the
\* transformed value of that key
DictEntries ==
    (Called /\ fault = "none" /\ Len(funcs) = 1 /\ funcs[1].kind = "dict") =>
        /\ outcome.exc = "None"
        /\ TheValue.t = "Dictionary"
        /\ Len(TheValue.items) = Len(TheInput.items)
        /\ \A i \in 1..Len(TheInput.items) :
              TheValue.items[i] =
                 PyTuple(<<Call(funcs[1].subs[1], TheInput.items[i].items[1], 0).obj,
                           Call(funcs[1].subs[2], TheInput.items[i].items[2], 0).obj>>)

\* a dict function given a list fails with UnexpectedValue
DictRejectsSequence ==
    (Called /\ fault = "dict_list") => outcome.exc = UnexpectedValue

\* C15: a dict function given a dict returns a Dictionary with one entry for
\* each item of the dict, the key transformed paired with the transformed
\* value of that key; given an object that is no dict, a list for one, it
\* fails with UnexpectedValue and with no other kind of error.
DictInputShape == DictEntries /\ DictRejectsSequence

\* C16: the function for 'v' fails with UnexpectedValue when it is given an
\* object that is no pair, or a pair whose first member is no signature of
\* exactly one complete type (one that does not parse, the empty one, or one
\* with more type codes after the first complete type); no other kind of
\* error comes out and no object is made of a prefix of the signature.
MalformedWrapper ==
    (Called /\ fault \in {"variant_arity", "variant_badsig", "variant_prefix"}) =>
        /\ outcome.exc = UnexpectedValue
        /\ outcome.values = <<>>

\* the class whose constructor the compiler registers under a code
Registered(c) == COMPLETE(<<c>>, 1).tok.klass

\* C18: for each of the 13 basic types, the code under which __init__
\* registers the class is the code signature() returns for an object of that
\* class of variant level 0, and no two classes share a code.  The table is
\* the same in every state; it is looked at when a function for a basic type
\* has been compiled, and the object such a function makes is of the class
\* registered and has the code as its signature.
ScalarTable ==
    /\ (pc = "compiled" /\ Len(funcs) = 1 /\ funcs[1].kind = "base") =>
          /\ Cardinality(DOMAIN CODE) = 13
          /\ \A c \in DOMAIN CODE :
                /\ COMPLETE(<<c>>, 1).tok.sig = <<c>>
                /\ signature(MkObj(Registered(c), 0, <<>>, <<>>, 0, <<>>), FALSE)
                      = SigReturn(<<c>>)
          /\ \A c1, c2 \in DOMAIN CODE : Registered(c1) = Registered(c2) => c1 = c2
          /\ {Registered(c) : c \in DOMAIN CODE} = DbusScalarTypes
    /\ (pc = "inferred" /\ fault = "none" /\ Len(funcs) = 1
           /\ funcs[1].kind = "base") =>
          /\ TheValue.t = Registered(sig[1])
          /\ inferred[1] = SigReturn(sig)

\* C18 witness: "h" given 1 makes a UnixFd, of signature "h"
ScalarTableWitness ==
    /\ pc = "inferred" /\ fault = "none" /\ sig = <<"h">>
    /\ TheValue.t = "UnixFd" /\ TheValue.variant_level = 0
    /\ inferred[1] = SigReturn(<<"h">>)

RECURSIVE Monotone(_)
\* whether, everywhere in the object, a container has no greater variant
\* level than each of its elements that stands in a 'v' slot, where the path
\* from the container enters a wrapper.  The container's own signature tells
\* which slots are 'v' slots.
Monotone(dbus_object) ==
    CASE dbus_object.t = "Array" ->
           \A i \in 1..Len(dbus_object.items) :
              /\ dbus_object.signature = <<"v">> =>
                    dbus_object.variant_level <= dbus_object.items[i].variant_level
              /\ Monotone(dbus_object.items[i])
      [] dbus_object.t = "Dictionary" ->
           \A i \in 1..Len(dbus_object.items) :
              /\ Tail(dbus_object.signature) = <<"v">> =>
                    dbus_object.variant_level
                       <= dbus_object.items[i].items[2].variant_level
              /\ Monotone(dbus_object.items[i].items[2])
      [] dbus_object.t = "Struct" ->
           LET members == ZeroOrMoreCOMPLETE(dbus_object.signature, 1).toks
           IN \A i \in 1..Len(dbus_object.items) :
                 /\ members[i].kind = "variant" =>
                       dbus_object.variant_level <= dbus_object.items[i].variant_level
                 /\ Monotone(dbus_object.items[i])
      [] OTHER -> TRUE

\* C19: in every object a transform makes, along a path that enters a
\* wrapper the variant level never decreases from an object to its element:
\* for "v" given ("av", [("b", False)]) the variant level of the Array is not
\* greater than that of its element.
DepthMonotone ==
    (Called /\ fault = "none" /\ outcome.exc = "None") =>
        \A i \in 1..Len(outcome.values) : Monotone(outcome.values[i])

\* the object with its variant level set to 0
Unwrapped(dbus_object) == [dbus_object EXCEPT !.variant_level = 0]

\* C20: for an object of nonzero variant level, signature() without unpack
\* returns "v" whatever the object is and holds, an Array of elements of
\* varying signatures or an object of no dbus-python class included; with
\* unpack=True the object is told by its class as if its variant level were
\* 0, varying elements and unknown classes raise SignatureError, and the
\* elements are inferred without unpack: an element of nonzero variant level
\* counts as "v".
WrapperShortCircuit ==
    (pc = "inferred" /\ fault = "foreign"
       /\ HasAttr(TheInput, "variant_level") /\ TheInput.variant_level /= 0) =>
        IF ~unpack
        THEN inferred[1] = SigReturn(<<"v">>)
        ELSE /\ inferred[1] = signature(Unwrapped(TheInput), FALSE)
             /\ inferred[1] /= SigReturn(<<"v">>)
             /\ (TheInput.t = "Array" /\ Cardinality(ElementSignatures(TheInput)) >= 2)
                   => inferred[1].exc = SignatureError
             /\ TheInput.t \notin DbusTypes => inferred[1].exc = SignatureError
             /\ (/\ TheInput.t = "Array" /\ TheInput.items /= <<>>
                 /\ \A i \in 1..Len(TheInput.items) :
                       /\ HasAttr(TheInput.items[i], "variant_level")
                       /\ TheInput.items[i].variant_level /= 0)
                   => inferred[1] = SigReturn(<<"a", "v">>)

\* C20 witness: Array([Boolean(variant_level=2), Byte(0)], signature="v",
\* variant_level=1) has signature "v"
WrapperShortCircuitWitness ==
    /\ pc = "inferred" /\ fault = "foreign" /\ ~unpack
    /\ TheInput = DbusArray(<<MkObj("Boolean", 0, <<>>, <<>>, 2, <<>>),
                              MkObj("Byte", 0, <<>>, <<>>, 0, <<>>)>>, <<"v">>, 1)
    /\ inferred[1] = SigReturn(<<"v">>)

RECURSIVE Stores(_, _, _)
\* every Array made holds the signature of its elements, every Dictionary
\* made the signature of its keys followed by that of its values
Stores(node, given, made) ==
    CASE node.kind = "base" -> TRUE
      [] node.kind = "variant" ->
           Stores(COMPLETE(given.items[1].s, 1).tok, given.items[2], made)
      [] node.kind = "array" ->
           /\ made.signature = node.subs[1].sig
           /\ \A slot \in Slots(node, given, made) : Stores(slot[1], slot[2], slot[3])
      [] node.kind = "dict" ->
           /\ made.signature = node.subs[1].sig \o node.subs[2].sig
           /\ \A slot \in Slots(node, given, made) : Stores(slot[1], slot[2], slot[3])
      [] node.kind = "struct" ->
           \A slot \in Slots(node, given, made) : Stores(slot[1], slot[2], slot[3])

\* C21: signature() of an empty Array of variant level 0 is "a" followed by
\* the signature stored on it, of an empty Dictionary of variant level 0
\* "a{", the signature stored on it and "}"; every Array the functions make
\* holds the signature of its elements and every Dictionary the signatures of
\* its keys and values joined, so that an array or dict signature given the
\* empty list or dict is inferred back from the value made; a non-empty Array
\* or Dictionary whose elements agree has the signature of its elements,
\* whatever is stored on it.
EmptyContainerInference ==
    /\ (pc = "inferred" /\ fault = "foreign" /\ TheInput.variant_level = 0
          /\ TheInput.items = <<>>) =>
          /\ TheInput.t = "Array" =>
                inferred[1] = SigReturn(<<"a">> \o TheInput.signature)
          /\ TheInput.t = "Dictionary" =>
                inferred[1] = SigReturn(<<"a", "{">> \o TheInput.signature \o <<"}">>)
    /\ (Called /\ fault = "none" /\ outcome.exc = "None") =>
          \A i \in 1..Len(funcs) :
             Stores(funcs[i], objects.items[i], outcome.values[i])
    /\ (pc = "inferred" /\ fault = "none" /\ Len(funcs) = 1
          /\ funcs[1].kind \in {"array", "dict"} /\ TheInput.items = <<>>) =>
          /\ TheValue.items = <<>>
          /\ inferred[1] = SigReturn(sig)
    /\ (pc = "inferred" /\ fault = "foreign" /\ TheInput.variant_level = 0
          /\ TheInput.items /= <<>>) =>
          /\ (/\ TheInput.t = "Array"
              /\ \A i \in 1..Len(TheInput.items) :
                    signature(TheInput.items[i], FALSE).exc = "None"
              /\ Cardinality(ElementSignatures(TheInput)) = 1) =>
                \E s \in ElementSignatures(TheInput) :
                   inferred[1] = SigReturn(<<"a">> \o s)
          /\ (/\ TheInput.t = "Dictionary"
              /\ \A i \in 1..Len(TheInput.items) :
                    /\ signature(TheInput.items[i].items[1], FALSE).exc = "None"
                    /\ signature(TheInput.items[i].items[2], FALSE)
                          = signature(TheInput.items[1].items[2], FALSE)
                    /\ signature(TheInput.items[i].items[2], FALSE).exc = "None") =>
                inferred[1] = SigReturn(
                   <<"a", "{">>
                   \o signature(TheInput.items[1].items[1], FALSE).sig
                   \o signature(TheInput.items[1].items[2], FALSE).sig
                   \o <<"}">>)

\* C21 witness: "a{bv}" given {} makes an empty Dictionary holding "bv" whose
\* signature is "a{bv}" again
EmptyContainerInferenceWitness ==
    /\ pc = "inferred" /\ fault = "none" /\ ~unpack
    /\ sig = <<"a", "{", "b", "v", "}">>
    /\ TheInput = PyDict(<<>>)
    /\ TheValue.t = "Dictionary" /\ TheValue.items = <<>>
    /\ TheValue.signature = <<"b", "v">>
    /\ inferred[1] = SigReturn(sig)

\* C21 witness of a stored signature ignored: Array([Byte(0)], signature="v")
\* has signature "ay"
StoredSignatureIgnoredWitness ==
    /\ pc = "inferred" /\ fault = "foreign"
    /\ TheInput = DbusArray(<<MkObj("Byte", 0, <<>>, <<>>, 0, <<>>)>>, <<"v">>, 0)
    /\ inferred[1] = SigReturn(<<"a", "y">>)

(***************************************************************************)
(* The calls a transformation makes.                                       *)
(***************************************************************************)
\* one call of a generated function
ACall(node, expr, variant) == [node |-> node, expr |-> expr, variant |-> variant]

\* SubCalls with the wrapper's function called once for the object and once
\* more for its level
SubCalls_twice(node, expr, variant) ==
    CASE node.kind = "variant" ->
           IF /\ Iterable(expr) /\ Len(Iter(expr)) = 2 /\ IsText(Iter(expr)[1])
              /\ COMPLETE(Iter(expr)[1].s, 1).ok
              /\ COMPLETE(Iter(expr)[1].s, 1).tok.sig = Iter(expr)[1].s
           THEN <<ACall(COMPLETE(Iter(expr)[1].s, 1).tok, Iter(expr)[2], variant + 1),
                  ACall(COMPLETE(Iter(expr)[1].s, 1).tok, Iter(expr)[2], variant + 1)>>
           ELSE <<>>
      [] node.kind = "dict" ->
           IF IsDict(expr)
           THEN [i \in 1..(2 * Len(expr.items)) |->
                   IF i % 2 = 1
                   THEN ACall(node.subs[1], expr.items[(i + 1) \div 2].items[1], 0)
                   ELSE ACall(node.subs[2], expr.items[i \div 2].items[2], 0)]
           ELSE <<>>
      [] node.kind = "array" ->
           IF ~IsDict(expr) /\ Iterable(expr)
           THEN [i \in 1..Len(Iter(expr)) |-> ACall(node.subs[1], Iter(expr)[i], 0)]
           ELSE <<>>
      [] node.kind = "struct" ->
           IF ~IsDict(expr) /\ Iterable(expr) /\ ~WrongLength(expr, node.subs)
           THEN [i \in 1..Len(node.subs) |-> ACall(node.subs[i], Iter(expr)[i], 0)]
           ELSE <<>>
      [] node.kind = "base" -> <<>>

\* the calls of generated functions that the function of node, called on expr,
\* makes itself, in order, when none of them raises
SubCalls(node, expr, variant) ==
    CASE node.kind = "variant" ->
           \* func(an_obj, variant=variant + 1)
           IF /\ Iterable(expr) /\ Len(Iter(expr)) = 2 /\ IsText(Iter(expr)[1])
              /\ COMPLETE(Iter(expr)[1].s, 1).ok
              /\ COMPLETE(Iter(expr)[1].s, 1).tok.sig = Iter(expr)[1].s
           THEN <<ACall(COMPLETE(Iter(expr)[1].s, 1).tok, Iter(expr)[2], variant + 1)>>
           ELSE <<>>
      [] node.kind = "dict" ->
           \* [(key_func(x), value_func(y)) for (x, y) in a_dict.items()]
           IF IsDict(expr)
           THEN [i \in 1..(2 * Len(expr.items)) |->
                   IF i % 2 = 1
                   THEN ACall(node.subs[1], expr.items[(i + 1) \div 2].items[1], 0)
                   ELSE ACall(node.subs[2], expr.items[i \div 2].items[2], 0)]
           ELSE <<>>
      [] node.kind = "array" ->
           \* [func(x) for x in a_list]
           IF ~IsDict(expr) /\ Iterable(expr)
           THEN [i \in 1..Len(Iter(expr)) |-> ACall(node.subs[1], Iter(expr)[i], 0)]
           ELSE <<>>
      [] node.kind = "struct" ->
           \* [f(x) for (f, x) in zip(funcs, a_list)]
           IF ~IsDict(expr) /\ Iterable(expr) /\ ~WrongLength(expr, node.subs)
           THEN [i \in 1..Len(node.subs) |-> ACall(node.subs[i], Iter(expr)[i], 0)]
           ELSE <<>>
      [] node.kind = "base" -> <<>>

RECURSIVE Total(_)
\* the sum of a sequence of numbers
Total(ns) == IF ns = <<>> THEN 0 ELSE Head(ns) + Total(Tail(ns))

\* The calls of SubCalls that are made, each with whether it returns: all of
\* them when the call that makes them returns, and otherwise those up to the
\* first that raises.
MadeCalls(node, expr, variant, returns) ==
    LET calls == SubCalls(node, expr, variant)
    IN IF returns
       THEN [i \in 1..Len(calls) |-> [call |-> calls[i], returns |-> TRUE]]
       ELSE LET results == [i \in 1..Len(calls) |->
                              Call(calls[i].node, calls[i].expr, calls[i].variant)]
                bad == FirstRaise(results)
            IN [i \in 1..(IF bad = 0 THEN Len(calls) ELSE bad) |->
                  [call |-> calls[i], returns |-> i /= bad]]

RECURSIVE Calls(_, _, _, _)
\* the number of calls of generated functions in one call of the function of
\* node on expr, this call included
Calls(node, expr, variant, returns) ==
    LET made == MadeCalls(node, expr, variant, returns)
    IN 1 + Total([i \in 1..Len(made) |->
                    Calls(made[i].call.node, made[i].call.expr,
                          made[i].call.variant, made[i].returns)])

RECURSIVE SignatureCalls(_, _)
\* the number of calls of signature() in one call of it, this call included
SignatureCalls(dbus_object, unpack_) ==
    LET inner == IF dbus_object.t \in {"Array", "Struct"} THEN dbus_object.items
                 ELSE IF dbus_object.t = "Dictionary"
                 \* the keys, then the values
                 THEN [i \in 1..(2 * Len(dbus_object.items)) |->
                         IF i <= Len(dbus_object.items)
                         THEN dbus_object.items[i].items[1]
                         ELSE dbus_object.items[i - Len(dbus_object.items)].items[2]]
                 ELSE <<>>
        results == [i \in 1..Len(inner) |-> signature(inner[i], FALSE)]
        made == IF FirstRaise(results) = 0 THEN inner
                ELSE SubSeq(inner, 1, FirstRaise(results))
        count[i \in 0..Len(made)] ==
            IF i = 0 THEN 1 ELSE count[i - 1] + SignatureCalls(made[i], FALSE)
    IN IF \/ ~HasVariantLevel(dbus_object)
          \/ ~HasAttr(dbus_object, "variant_level")
          \/ InVariant(dbus_object, unpack_)
       THEN 1
       ELSE count[Len(made)]

RECURSIVE ParseActions(_)
\* the number of parse actions that made this (function, signature) pair
ParseActions(node) ==
    IF node.kind = "lit" THEN 0
    ELSE LET count[i \in 0..Len(node.subs)] ==
                 IF i = 0 THEN 1 ELSE count[i - 1] + ParseActions(node.subs[i])
         IN count[Len(node.subs)]

RECURSIVE Size(_)
\* the size of a value: the objects it is built of, its own characters and
\* the entries of a dict for their key and value
Size(v) ==
    LET parts == IF v.t \in {"dict", "Dictionary"}
                 THEN [i \in 1..(2 * Len(v.items)) |->
                         v.items[(i + 1) \div 2].items[IF i % 2 = 1 THEN 1 ELSE 2]]
                 ELSE v.items
        total[i \in 0..Len(parts)] ==
            IF i = 0 THEN 1 + Len(v.s) ELSE total[i - 1] + Size(parts[i])
    IN total[Len(parts)]

RECURSIVE Shrinks(_, _, _, _)
\* every call made from inside this one goes down: the function of a 'v'
\* calls the function of the embedded signature on a value strictly smaller
\* than its own, every other function calls the functions of strictly
\* shorter signatures
Shrinks(node, expr, variant, returns) ==
    LET made == MadeCalls(node, expr, variant, returns)
    IN \A i \in 1..Len(made) :
          /\ IF node.kind = "variant"
             THEN Size(made[i].call.expr) < Size(expr)
             ELSE Len(made[i].call.node.sig) < Len(node.sig)
          /\ Shrinks(made[i].call.node, made[i].call.expr,
                     made[i].call.variant, made[i].returns)

RECURSIVE TextIterated(_, _, _, _)
\* somewhere in this call the function of an array or struct is given a text
\* and calls the function of its elements on each character
TextIterated(node, expr, variant, returns) ==
    LET made == MadeCalls(node, expr, variant, returns)
    IN \/ node.kind \in {"array", "struct"} /\ expr.t = "str" /\ made /= <<>>
       \/ \E i \in 1..Len(made) :
             TextIterated(made[i].call.node, made[i].call.expr,
                          made[i].call.variant, made[i].returns)

\* the runs of the generated functions and of signature(), the calls of a
\* generated function counted against the sum of the length of its signature
\* and the size of its argument, times the size again if text_costs and a
\* text is iterated
TerminationWithin(text_costs) ==
    /\ pc = "compiled" =>
          \A i \in 1..Len(funcs) : ParseActions(funcs[i]) <= Len(funcs[i].sig)
    /\ pc = "applied" =>
          \A i \in 1..Min(Len(funcs), Len(objects.items)) :
             LET node == funcs[i]
                 expr == objects.items[i]
                 returns == Call(node, expr, 0).exc = "None"
                 sum == Len(node.sig) + Size(expr)
             IN /\ Calls(node, expr, 0, returns)
                     <= IF text_costs /\ TextIterated(node, expr, 0, returns)
                        THEN sum * Size(expr)
                        ELSE sum
                /\ Shrinks(node, expr, 0, returns)
    /\ (pc = "inferred" /\ fault /= "foreign") =>
          \A i \in 1..Len(outcome.values) :
             SignatureCalls(outcome.values[i], unpack) <= Size(outcome.values[i])
    /\ (pc = "inferred" /\ fault = "foreign") =>
          SignatureCalls(TheInput, unpack) <= Size(TheInput)

\* C22 as stated: compiling a signature takes at most one parse action for
\* each of its characters; a call of a generated function makes, itself
\* included, at most as many calls of generated functions as the length of
\* its signature plus the size of the value it is given, whether it returns
\* or raises, and the function of a 'v' always calls the function it compiled
\* for the embedded signature on a strictly smaller value; signature() makes
\* at most as many calls of itself as the size of the object.
TerminationAsStated == TerminationWithin(FALSE)

\* C22 amended: the same, the calls of a generated function being at most
\* the length of the signature plus the size of the value when no array or
\* struct function is given a text, and at most that sum times the size of
\* the value when one is: it is called again on every character.
Termination == TerminationWithin(TRUE)

\* C22 witness: "aaaab" given "ab" returns an Array after nine calls, four
\* for each character
TerminationWitness ==
    /\ pc = "applied" /\ fault = "text"
    /\ sig = <<"a", "a", "a", "a", "b">>
    /\ TheInput = PyStr(<<"a", "b">>)
    /\ Calls(funcs[1], TheInput, 0, TRUE) = 9
    /\ pairs[1].exc = "None"
    /\ pairs[1].obj.t = "Array"

\* C22 witness of the wrappers: "v" given ("v", ("v", ("b", False))) takes
\* four calls, each on a smaller value than the one before
WrapperReentryWitness ==
    /\ pc = "applied" /\ fault = "none" /\ sig = <<"v">>
    /\ TheInput = PyTuple(<<PyStr(<<"v">>),
                            PyTuple(<<PyStr(<<"v">>),
                                      PyTuple(<<PyStr(<<"b">>), PyBool(FALSE)>>)>>)>>)
    /\ Calls(funcs[1], TheInput, 0, TRUE) = 4
    /\ Shrinks(funcs[1], TheInput, 0, TRUE)
    /\ pairs[1].exc = "None"

RECURSIVE InnermostObject(_)
\* the object embedded in the innermost of these wrapper tuples
InnermostObject(a_tuple) ==
    IF a_tuple.items[1].s = <<"v">>
    THEN InnermostObject(a_tuple.items[2])
    ELSE a_tuple.items[2]

\* the function and the object are those of an empty array or dict whose
\* signature has a 'v' in it
EmptyOfWrappers(sig_, v) ==
    /\ Head(sig_) = "a" /\ Contains(sig_, "v")
    /\ v.t \in {"list", "tuple", "dict"} /\ v.items = <<>>

RECURSIVE LevelTellsWrapper(_, _)
\* this function and every function it calls with variant 0 return a level of
\* 1 or more exactly when their signature has a 'v' in it
LevelTellsWrapper(node, expr) ==
    LET made == SubCalls(node, expr, 0)
    IN /\ Call(node, expr, 0).level >= 1 <=> Contains(node.sig, "v")
       /\ node.kind /= "variant" =>
             \A i \in 1..Len(made) : LevelTellsWrapper(made[i].node, made[i].expr)

\* C23: an empty list or dict given for an array or dict signature with a 'v'
\* anywhere in it makes, at the top level, an object of variant level 0 and
\* the function returns level 1; behind d wrapper tuples it makes an object
\* of variant level d + 1; and a function called at the top level on a value
\* shaped to match returns a level of 1 or more exactly when its signature
\* has a 'v' in it, the value empty or not.
EmptyDepthPolicy ==
    /\ (pc = "applied" /\ fault = "none") =>
          \A i \in 1..Len(pairs) :
             /\ pairs[i].exc = "None"
             /\ pairs[i].level >= 1 <=> Contains(funcs[i].sig, "v")
             /\ LevelTellsWrapper(funcs[i], objects.items[i])
             /\ EmptyOfWrappers(funcs[i].sig, objects.items[i]) =>
                   /\ pairs[i].obj.variant_level = 0
                   /\ pairs[i].obj.items = <<>>
                   /\ pairs[i].level = 1
    /\ (pc = "applied" /\ fault = "none"
          /\ sig = <<"v">>
          /\ EmptyOfWrappers(InnermostSignature(TheInput), InnermostObject(TheInput))) =>
          /\ pairs[1].obj.t \in {"Array", "Dictionary"}
          /\ pairs[1].obj.items = <<>>
          /\ pairs[1].obj.variant_level = WrapperChain(TheInput) + 1

\* C23 witness: "v" given ("v", ("a{bv}", {})) makes an empty Dictionary of
\* variant level 3
EmptyDepthPolicyWitness ==
    /\ pc = "applied" /\ fault = "none" /\ sig = <<"v">>
    /\ TheInput = PyTuple(<<PyStr(<<"v">>),
                            PyTuple(<<PyStr(<<"a", "{", "b", "v", "}">>),
                                      PyDict(<<>>)>>)>>)
    /\ pairs[1].exc = "None"
    /\ pairs[1].obj.t = "Dictionary"
    /\ pairs[1].obj.variant_level = 3

\* C23 witness at the top level: "av" given [] makes an Array of variant
\* level 0 and returns level 1
EmptyTopLevelWitness ==
    /\ pc = "applied" /\ fault = "none" /\ sig = <<"a", "v">>
    /\ TheInput = PyList(<<>>)
    /\ pairs[1].obj.variant_level = 0
    /\ pairs[1].level = 1

\* C24: for signature "v", an array, dict or struct embedded in the innermost
\* of d wrapper tuples nested in one another is made with variant level
\* exactly d, however deeply wrapped its own elements are: for "v" given
\* ("av", [("b", False)]) the Array has variant level 1 and its element
\* variant level 1.  The empty array or dict of a signature with a 'v' in
\* it, which has a rule of its own, is left aside.
ContainerUnderWrapper ==
    (Called /\ fault = "none" /\ sig = <<"v">> /\ outcome.exc = "None"
       /\ Head(InnermostSignature(TheInput)) \in {"a", "("}
       /\ ~EmptyOfWrappers(InnermostSignature(TheInput), InnermostObject(TheInput))) =>
        /\ TheValue.t \in {"Array", "Dictionary", "Struct"}
        /\ TheValue.variant_level = WrapperChain(TheInput)
        /\ (TheInput = PyTuple(<<PyStr(<<"a", "v">>),
                                 PyList(<<PyTuple(<<PyStr(<<"b">>),
                                                    PyBool(FALSE)>>)>>)>>)) =>
              TheValue.items[1].variant_level = 1
====
